---- MODULE Spec2Model ----
(***************************************************************************)
(* The OAuth2 refresh-token authenticator of tap-hubspot                   *)
(* (src/tap_hubspot/hotglue_auth.py, class OAuth2Authenticator) and the    *)
(* shared tap object that carries the credential (src/tap_hubspot/tap.py). *)
(*                                                                         *)
(* Python values: an optional value is a sequence of length at most one,   *)
(* None is <<>> and a value v is <<v>>.  A JSON object is a function from  *)
(* its keys to its values, so a missing key is a key outside DOMAIN.       *)
(***************************************************************************)
EXTENDS Integers, Sequences, FiniteSets, TLC

VARIABLES
    tap_attrs,       \* names of the attributes set on the shared tap object
    access_token,    \* self._tap.access_token
    expires_in,      \* self._tap.expires_in: absolute expiry time, or None
    tap_config,      \* the keys present in stream.config
    now,             \* round(datetime.utcnow().timestamp())
    pc,              \* position of each caller of auth_headers
    check_now,       \* `now` of is_token_valid, per caller
    request_time,    \* `request_time` of update_access_token, per caller
    token_response,  \* `token_response` of update_access_token, per caller
    headers,         \* the dict auth_headers returned, per caller
    error,           \* the exception auth_headers raised, per caller
    posts,           \* requests.post calls made during the current call
    before,          \* the credential as it was when the current call began
    seen_token,      \* the access_token is_token_valid read, until it returns
    paired           \* the access_token of the refresh that stored expires_in

vars == <<tap_attrs, access_token, expires_in, tap_config, now, pc, check_now,
          request_time, token_response, headers, error, posts, before,
          seen_token, paired>>

shared == <<tap_attrs, access_token, expires_in, tap_config, now, paired>>

----------------------------------------------------------------------------
(* Bounds of the model *)

\* the clock runs from 0 to MaxTime in steps of TickStep
MaxTime == 90
TickStep == 30
\* the pure-function check of is_token_valid draws `now` from 0..MaxNow
MaxNow == 3

Callers == {"c1", "c2"}
Main == "c1"

None == <<>>
Some(v) == <<v>>

\* access tokens the identity provider may send: null, empty, two real ones
TokenValues == {None, Some(""), Some("abc123"), Some("xyz")}
\* expires_in values the identity provider may send
ExpiresInValues == {59, 90}
\* HTTP statuses the token endpoint may answer with
Statuses == {200, 304, 401}

----------------------------------------------------------------------------
(* Program constants *)

TokenBuffer == 60

_auth_endpoint == "https://api.hubapi.com/oauth/v1/token"

TapAttrs == {"access_token", "expires_in"}

\* the keys oauth_request_body reads from the config
RequestKeys == {"client_id", "client_secret", "redirect_uri", "refresh_token"}

\* the keys config_jsonschema marks required
RequiredKeys == {"client_id", "client_secret", "refresh_token", "properties"}

----------------------------------------------------------------------------
(* Responses of the token endpoint *)

EmptyObject == [k \in {} |-> 0]

\* is_json: whether the body parses as JSON; json: the parsed body
Response(status, is_json, json) ==
    [status |-> status, is_json |-> is_json, json |-> json]

\* complete token responses
TokenObjects == [access_token : TokenValues, expires_in : ExpiresInValues]

\* JSON objects that lack a key of a token response
PartialObjects ==
    {[k \in {"access_token"} |-> Some("xyz")],
     [k \in {"expires_in"} |-> 90],
     EmptyObject}

NotJson == Response(200, FALSE, EmptyObject)

\* what the token endpoint may answer a single caller
Responses ==
    {Response(200, TRUE, j) : j \in TokenObjects \cup PartialObjects}
    \cup {Response(s, FALSE, EmptyObject) : s \in Statuses}
    \cup {Response(401, TRUE, EmptyObject)}
    \cup {Response(304, TRUE, [access_token |-> Some("xyz"), expires_in |-> 90])}

\* what it may answer concurrent callers
ConcurrentResponses ==
    {Response(200, TRUE, j) :
        j \in [access_token : {Some("abc123"), Some("xyz")},
               expires_in : ExpiresInValues]}
    \cup {Response(401, TRUE, EmptyObject)}

NoResponse == [status |-> 0, is_json |-> FALSE, json |-> EmptyObject]

NoError == [type |-> "", response |-> NoResponse]

Raised(type, response) == [type |-> type, response |-> response]

Credential(tok, exp) == [access_token |-> tok, expires_in |-> exp]

----------------------------------------------------------------------------
(* Pure functions *)

\* Python's `not v` for an optional string
NotStr(v) == v = None \/ v = Some("")

\* Python's `not v` for an optional integer
NotInt(v) == v = None \/ v = Some(0)

\* faulty variants of the definitions below, which the properties tell apart
ExpiresSoonNoBuffer(exp, n) == (exp[1] - n) < 0
ExpiresSoonInclusive(exp, n) == (exp[1] - n) <= TokenBuffer
NewExpiresInAtReceipt(rt, e) == Some(now + e)

\* the third disjunct of is_token_valid
ExpiresSoon(exp, n) == (exp[1] - n) < TokenBuffer

\* the second and third disjuncts, which read self._tap.expires_in
ExpiryInvalid(exp, n) == NotInt(exp) \/ ExpiresSoon(exp, n)

\* requests.Response.raise_for_status raises for 4xx and 5xx
raise_for_status(status) == 400 <= status /\ status < 600

\* str() as the f-string applies it to self._tap.access_token
Str(tok) == IF tok = None THEN "None" ELSE tok[1]

auth_headers_no_scheme(tok) == [k \in {"Authorization"} |-> Str(tok)]

auth_headers(tok) == [k \in {"Authorization"} |-> "Bearer " \o Str(tok)]

NewExpiresIn(rt, e) == Some(rt + e)

\* a variant that does not read redirect_uri
oauth_request_body_no_redirect(config) ==
    (RequestKeys \ {"redirect_uri"}) \subseteq config

\* whether oauth_request_body finds every key it subscripts
oauth_request_body(config) == RequestKeys \subseteq config

auth_endpoint == _auth_endpoint # ""

----------------------------------------------------------------------------
(* Initial states *)

InitLocals ==
    /\ pc = [c \in Callers |-> "idle"]
    /\ check_now = [c \in Callers |-> None]
    /\ request_time = [c \in Callers |-> None]
    /\ token_response = [c \in Callers |-> NoResponse]
    /\ headers = [c \in Callers |-> EmptyObject]
    /\ error = [c \in Callers |-> NoError]
    /\ posts = [c \in Callers |-> 0]
    /\ before = [c \in Callers |-> Credential(None, None)]
    /\ seen_token = [c \in Callers |-> None]

\* a tap whose config passed the schema, before any stream built an authenticator
Init ==
    /\ tap_attrs = {}
    /\ access_token = None
    /\ expires_in = None
    /\ tap_config \in {RequiredKeys, RequiredKeys \cup {"redirect_uri"}}
    /\ now = 0
    /\ paired = None
    /\ InitLocals

----------------------------------------------------------------------------
(* Actions *)

\* a variant of Construct that sets the attributes without asking hasattr
ConstructResets ==
    /\ tap_attrs' = tap_attrs \cup TapAttrs
    /\ access_token' = None
    /\ expires_in' = None
    /\ UNCHANGED <<tap_config, now, pc, check_now, request_time, token_response,
                   headers, error, posts, before, seen_token, paired>>

\* OAuth2Authenticator.__init__, run by every stream of the tap
Construct ==
    /\ tap_attrs' = tap_attrs \cup TapAttrs
    /\ access_token' = IF "access_token" \in tap_attrs THEN access_token ELSE None
    /\ expires_in' = IF "expires_in" \in tap_attrs THEN expires_in ELSE None
    /\ UNCHANGED <<tap_config, now, pc, check_now, request_time, token_response,
                   headers, error, posts, before, seen_token, paired>>

\* the wall clock advances
Tick ==
    /\ now + TickStep <= MaxTime
    /\ now' = now + TickStep
    /\ UNCHANGED <<tap_attrs, access_token, expires_in, tap_config, pc, check_now,
                   request_time, token_response, headers, error, posts, before,
                   seen_token, paired>>

\* auth_headers begins: is_token_valid reads the clock and self._tap.access_token;
\* the caller's locals of its previous call are gone
CheckToken(c) ==
    /\ pc[c] \in {"idle", "done", "failed"}
    /\ tap_attrs = TapAttrs
    /\ check_now' = [check_now EXCEPT ![c] = Some(now)]
    /\ pc' = [pc EXCEPT ![c] =
                IF NotStr(access_token) THEN "refresh" ELSE "check_expires"]
    /\ request_time' = [request_time EXCEPT ![c] = None]
    /\ token_response' = [token_response EXCEPT ![c] = NoResponse]
    /\ headers' = [headers EXCEPT ![c] = EmptyObject]
    /\ error' = [error EXCEPT ![c] = NoError]
    /\ posts' = [posts EXCEPT ![c] = 0]
    /\ seen_token' = [seen_token EXCEPT ![c] =
                        IF NotStr(access_token) THEN None ELSE access_token]
    /\ UNCHANGED shared

\* is_token_valid reads self._tap.expires_in and returns
CheckExpires(c) ==
    /\ pc[c] = "check_expires"
    /\ pc' = [pc EXCEPT ![c] =
                IF ExpiryInvalid(expires_in, check_now[c][1])
                THEN "refresh" ELSE "header"]
    /\ seen_token' = [seen_token EXCEPT ![c] = None]
    /\ UNCHANGED <<shared, check_now, request_time, token_response, headers,
                   error, posts, before>>

\* update_access_token up to the moment requests.post has sent the request
SendRequest(c) ==
    /\ pc[c] = "refresh"
    /\ request_time' = [request_time EXCEPT ![c] = Some(now)]
    /\ IF ~ oauth_request_body(tap_config)
       THEN /\ error' = [error EXCEPT ![c] = Raised("KeyError", NoResponse)]
            /\ pc' = [pc EXCEPT ![c] = "failed"]
            /\ UNCHANGED posts
       ELSE IF ~ auth_endpoint
       THEN /\ error' = [error EXCEPT ![c] = Raised("ValueError", NoResponse)]
            /\ pc' = [pc EXCEPT ![c] = "failed"]
            /\ UNCHANGED posts
       ELSE /\ posts' = [posts EXCEPT ![c] = @ + 1]
            /\ pc' = [pc EXCEPT ![c] = "post"]
            /\ UNCHANGED error
    /\ UNCHANGED <<shared, check_now, token_response, headers, before, seen_token>>

\* a variant of ConnectionFails that tries the exchange again
ConnectionFailsRetry(c) ==
    /\ pc[c] = "post"
    /\ pc' = [pc EXCEPT ![c] = "refresh"]
    /\ UNCHANGED <<shared, check_now, request_time, token_response, headers,
                   error, posts, before, seen_token>>

\* requests.post raises: no response arrives
ConnectionFails(c) ==
    /\ pc[c] = "post"
    /\ error' = [error EXCEPT ![c] = Raised("ConnectionError", NoResponse)]
    /\ pc' = [pc EXCEPT ![c] = "failed"]
    /\ UNCHANGED <<shared, check_now, request_time, token_response, headers,
                   posts, before, seen_token>>

\* requests.post returns r: raise_for_status, json() and the store of
\* self._tap.access_token
ReceiveResponse(c, r) ==
    /\ pc[c] = "post"
    /\ token_response' = [token_response EXCEPT ![c] = r]
    /\ IF raise_for_status(r.status)
       THEN /\ error' = [error EXCEPT ![c] =
                   IF r.is_json THEN Raised("RuntimeError", r)
                   ELSE Raised("JSONDecodeError", NoResponse)]
            /\ pc' = [pc EXCEPT ![c] = "failed"]
            /\ UNCHANGED access_token
       ELSE IF ~ r.is_json
       THEN /\ error' = [error EXCEPT ![c] = Raised("JSONDecodeError", NoResponse)]
            /\ pc' = [pc EXCEPT ![c] = "failed"]
            /\ UNCHANGED access_token
       ELSE IF "access_token" \notin DOMAIN r.json
       THEN /\ error' = [error EXCEPT ![c] = Raised("KeyError", NoResponse)]
            /\ pc' = [pc EXCEPT ![c] = "failed"]
            /\ UNCHANGED access_token
       ELSE /\ access_token' = r.json["access_token"]
            /\ pc' = [pc EXCEPT ![c] = "store_expires"]
            /\ UNCHANGED error
    /\ UNCHANGED <<tap_attrs, expires_in, tap_config, now, check_now, request_time,
                   headers, posts, before, seen_token, paired>>

\* the store of self._tap.expires_in, which ends update_access_token
StoreExpires(c) ==
    /\ pc[c] = "store_expires"
    /\ IF "expires_in" \notin DOMAIN token_response[c].json
       THEN /\ error' = [error EXCEPT ![c] = Raised("KeyError", NoResponse)]
            /\ pc' = [pc EXCEPT ![c] = "failed"]
            /\ UNCHANGED <<expires_in, paired>>
       ELSE /\ expires_in' = NewExpiresIn(request_time[c][1],
                                          token_response[c].json["expires_in"])
            /\ paired' = token_response[c].json["access_token"]
            /\ pc' = [pc EXCEPT ![c] = "header"]
            /\ UNCHANGED error
    /\ UNCHANGED <<tap_attrs, access_token, tap_config, now, check_now,
                   request_time, token_response, headers, posts, before, seen_token>>

\* auth_headers reads self._tap.access_token into the header and returns
BuildHeader(c) ==
    /\ pc[c] = "header"
    /\ headers' = [headers EXCEPT ![c] = auth_headers(access_token)]
    /\ pc' = [pc EXCEPT ![c] = "done"]
    /\ UNCHANGED <<shared, check_now, request_time, token_response, error,
                   posts, before, seen_token>>

\* a call begins, and the credential it began with is recorded
StartCall(c) ==
    /\ CheckToken(c)
    /\ before' = [before EXCEPT ![c] = Credential(access_token, expires_in)]

\* a call begins, unrecorded
StartConcurrentCall(c) ==
    /\ CheckToken(c)
    /\ UNCHANGED before

\* the steps of a call after its first, with the endpoint answering from R
Call(c, R) ==
    \/ CheckExpires(c)
    \/ SendRequest(c)
    \/ ConnectionFails(c)
    \/ \E r \in R : ReceiveResponse(c, r)
    \/ StoreExpires(c)
    \/ BuildHeader(c)

\* the streams of the tap call auth_headers concurrently
Next ==
    \/ Construct
    \/ Tick
    \/ \E c \in Callers : StartConcurrentCall(c)
    \/ \E c \in Callers : Call(c, ConcurrentResponses)

Spec == Init /\ [][Next]_vars

\* one stream at a time calls auth_headers
NextSingle ==
    \/ Construct
    \/ Tick
    \/ StartCall(Main)
    \/ Call(Main, Responses)

SpecSingle == Init /\ [][NextSingle]_vars

\* one caller whose own steps are always taken in the end: the interpreter
\* runs the thread.  Nothing makes the token endpoint answer or the
\* connection fail, and requests.post is given no timeout.
CallerSteps(c) ==
    \/ CheckExpires(c)
    \/ SendRequest(c)
    \/ StoreExpires(c)
    \/ BuildHeader(c)

SpecLive == Init /\ [][NextSingle]_vars /\ WF_vars(CallerSteps(Main))

\* is_token_valid alone, on every credential and clock within the bounds
InitValid ==
    /\ tap_attrs = TapAttrs
    /\ access_token \in TokenValues
    /\ expires_in \in {None} \cup {Some(e) : e \in 0 .. (MaxNow + TokenBuffer + 1)}
    /\ tap_config = RequiredKeys \cup {"redirect_uri"}
    /\ now \in 0 .. MaxNow
    /\ paired = access_token
    /\ InitLocals

NextValid ==
    \/ StartCall(Main)
    \/ CheckExpires(Main)

SpecValid == InitValid /\ [][NextValid]_vars

----------------------------------------------------------------------------
(* The credential as the specification speaks of it *)

\* a token is present when it is neither absent nor empty
Present(tok) == tok # None /\ tok # Some("")

\* the validity rule: token present, expiry present, at least 60 s left
Valid(tok, exp, n) == Present(tok) /\ exp # None /\ exp[1] - n >= 60

\* the credential caller c began its current call with was valid at its check
ValidAtCheck(c) ==
    Valid(before[c].access_token, before[c].expires_in, check_now[c][1])

CredentialNow == Credential(access_token, expires_in)

\* the header for a token string
Bearer(t) == [k \in {"Authorization"} |-> "Bearer " \o t]

\* a response the specification counts as a successful token response
Success(r) ==
    /\ r.status \in 200 .. 299
    /\ r.is_json
    /\ DOMAIN r.json = TapAttrs
    /\ r.json["access_token"] # None

----------------------------------------------------------------------------
(* Properties *)

\* C1: a call by a single caller that finds the credential invalid at its
\* check (token absent, expiry absent, or less than 60 s left) has made
\* exactly one call to the token endpoint when it returns, and after a
\* successful token response the header it returns is Bearer <that token>.
C1_InvalidRefreshesOnce ==
    (pc[Main] = "done" /\ ~ ValidAtCheck(Main)) =>
        /\ posts[Main] = 1
        /\ Success(token_response[Main]) =>
               headers[Main] = Bearer(token_response[Main].json["access_token"][1])

\* a call that found a token within 60 s of its expiry has returned the
\* token of a successful refresh
C1_Witness ==
    /\ pc[Main] = "done"
    /\ Present(before[Main].access_token)
    /\ before[Main].expires_in # None
    /\ before[Main].expires_in[1] - check_now[Main][1] < 60
    /\ posts[Main] = 1
    /\ Success(token_response[Main])
    /\ headers[Main] = Bearer("abc123")

C4_ExpiryFromRequestTime ==
    (pc[Main] = "header" /\ posts[Main] = 1) =>
        /\ expires_in = Some(request_time[Main][1]
                               + token_response[Main].json["expires_in"])
        /\ access_token = token_response[Main].json["access_token"]

\* a refresh has completed whose response arrived after its request was sent
C4_Witness ==
    /\ pc[Main] = "header"
    /\ posts[Main] = 1
    /\ Success(token_response[Main])
    /\ now > request_time[Main][1]
    /\ expires_in = Some(request_time[Main][1] + 90)

\* a 2xx JSON response that lacks access_token or expires_in
MissingField(r) ==
    /\ r.status \in 200 .. 299
    /\ r.is_json
    /\ DOMAIN r.json # TapAttrs

\* C5: a refresh whose 2xx response lacks access_token or expires_in fails,
\* and when it has failed both access_token and expires_in are what they
\* were before the refresh started.
C5_MissingFieldNoPartialUpdate ==
    MissingField(token_response[Main]) =>
        /\ pc[Main] \in {"store_expires", "failed"}
        /\ pc[Main] = "failed" =>
               (error[Main] # NoError /\ CredentialNow = before[Main])

\* C6: a refresh that receives a non-2xx response fails with an error that
\* carries the response (its status and body), whatever the body, and
\* leaves access_token and expires_in unchanged.
C6_Non2xxRaisesWithResponse ==
    (token_response[Main] # NoResponse
        /\ token_response[Main].status \notin 200 .. 299) =>
        /\ pc[Main] = "failed"
        /\ error[Main].response = token_response[Main]
        /\ CredentialNow = before[Main]

\* C7: with concurrent callers, at most one call to the token endpoint is in
\* flight at any time.
C7_SingleFlight ==
    Cardinality({c \in Callers : pc[c] = "post"}) <= 1

\* C8: whenever no call is in progress, access_token and expires_in are
\* both present or both absent.
C8_BothOrNeither ==
    pc[Main] \in {"idle", "done", "failed"} =>
        ((access_token = None) <=> (expires_in = None))

\* C9: whenever a call by a single caller returns a header, the stored
\* expiry is at least 60 s after the clock of the call's validity check.
C9_ReturnedTokenGood60s ==
    pc[Main] = "done" =>
        (expires_in # None /\ expires_in[1] - check_now[Main][1] >= 60)

ConfigFieldMissing ==
    \E k \in {"client_id", "client_secret", "redirect_uri", "refresh_token"} :
        k \notin tap_config

\* C11: with a required configuration field missing, a refresh fails before
\* any call to the token endpoint is made and without changing access_token
\* or expires_in.
C11_ConfigErrorBeforeRequest ==
    ConfigFieldMissing =>
        /\ posts[Main] = 0
        /\ pc[Main] \notin {"post", "store_expires"}
        /\ request_time[Main] # None =>
               /\ pc[Main] = "failed"
               /\ error[Main] # NoError
               /\ token_response[Main] = NoResponse
               /\ CredentialNow = before[Main]

\* a refresh has failed on the missing redirect_uri, with no request made
C11_Witness ==
    /\ "redirect_uri" \notin tap_config
    /\ pc[Main] = "failed"
    /\ request_time[Main] # None
    /\ error[Main].type = "KeyError"
    /\ posts[Main] = 0

\* caller c takes a step of update_access_token that may store into the tap
RefreshStores(c) ==
    /\ pc[c] \in {"post", "store_expires"}
    /\ pc'[c] # pc[c]

\* C14: the credential starts empty, and access_token and expires_in change
\* only in a step of a refresh: not when a further authenticator is
\* constructed, the request body is built, or a call finds the credential
\* valid.
C14_OnlyRefreshChanges ==
    /\ (access_token = None /\ expires_in = None)
    /\ [][(access_token' # access_token \/ expires_in' # expires_in) =>
             \E c \in Callers : RefreshStores(c)]_vars

\* a credential exists and a call on it has returned leaving it as it was
C14_Witness ==
    /\ tap_attrs = TapAttrs
    /\ Present(access_token)
    /\ expires_in # None
    /\ pc[Main] = "done"
    /\ request_time[Main] = None
    /\ CredentialNow = before[Main]

\* C15: every header a call returns is Bearer <t> for a token t that is
\* neither absent nor empty.
C15_HeaderCarriesToken ==
    pc[Main] = "done" =>
        /\ Present(access_token)
        /\ headers[Main] = Bearer(access_token[1])

\* a 2xx token response with both keys and at least 60 s to live
LongLived(r) ==
    /\ r.status \in 200 .. 299
    /\ r.is_json
    /\ DOMAIN r.json = TapAttrs
    /\ r.json["expires_in"] >= 60

\* C16: a call that finds the credential invalid attempts a refresh, and when
\* the endpoint answers it with a 2xx response with expires_in >= 60 the
\* credential is valid as of the request.
C16_RefreshRestoresValid ==
    /\ (pc[Main] = "done" /\ ~ ValidAtCheck(Main)) => request_time[Main] # None
    /\ (pc[Main] \in {"failed", "header", "done"}
           /\ LongLived(token_response[Main])) =>
           Valid(access_token, expires_in, request_time[Main][1])

InCall(c) == pc[c] \notin {"idle", "done", "failed"}

\* C17: every call of auth_headers completes in the end, with a header or
\* with an error, also when the token endpoint never answers.
C17_CallCompletes ==
    InCall(Main) ~> (pc[Main] \in {"done", "failed"})

\* caller c takes the step that completes its refresh
CompletesRefresh(c) ==
    /\ pc[c] = "store_expires"
    /\ pc'[c] = "header"

\* caller d has completed a refresh in its current call
RefreshCompleted(d) ==
    /\ pc[d] \in {"header", "done"}
    /\ posts[d] = 1

\* C13: when the last of the callers' refreshes completes, the others having
\* completed theirs, the credential is that refresh's: its response's token
\* and its request_time + expires_in.
C13_LastCompletedWins ==
    [][\A c \in Callers :
          (CompletesRefresh(c)
              /\ \A d \in Callers \ {c} : RefreshCompleted(d)) =>
              /\ access_token' = token_response[c].json["access_token"]
              /\ expires_in' = Some(request_time[c][1]
                                      + token_response[c].json["expires_in"])]_vars

\* caller c takes the step in which is_token_valid reads expires_in
ReadsExpiry(c) ==
    /\ pc[c] = "check_expires"
    /\ pc'[c] # "check_expires"

\* caller c takes the step in which auth_headers reads the token to return
ReadsHeaderToken(c) ==
    /\ pc[c] = "header"
    /\ pc'[c] = "done"

\* C12: under every interleaving, the expires_in a validity check reads was
\* stored by the refresh that delivered the access_token the check read, and
\* the token placed in a header is the one stored with the current
\* expires_in: no caller sees the fields of two different refreshes.
C12_CoherentReads ==
    [][\A c \in Callers :
          /\ ReadsExpiry(c) => seen_token[c] = paired
          /\ ReadsHeaderToken(c) => access_token = paired]_vars

====
